---- MODULE Spec2Model ----
(***************************************************************************)
(* The currency registry of pallet-encointer-currencies (src/src/lib.rs):  *)
(* the storage items, the dispatchable new_currency and the geodesic       *)
(* helpers it calls.                                                       *)
(*                                                                         *)
(* Numbers.  A Degree (I32F32) is modelled by its integer part, a whole    *)
(* number of degrees in the 32-bit range of the type, so that checked_sub  *)
(* and checked_mul overflow exactly where the code's do.  The intermediate *)
(* values of haversine_distance (type I = I32F32, radians and pure         *)
(* numbers) are fixed-point numbers with 28 fractional bits, the widest    *)
(* that the 32-bit integers of the model checker hold for angles up to     *)
(* 2*pi.                                                                   *)
(***************************************************************************)
EXTENDS Integers, Sequences, FiniteSets, TLC

(***************************************************************************)
(* Constants of the pallet.                                                *)
(***************************************************************************)
MAX_SPEED_MPS == 83

MIN_SOLAR_TRIP_TIME_S == 1

DATELINE_DISTANCE_M == 1000000

MEAN_EARTH_RADIUS == 6371000

\* 0x0477D1A894A74E40 / 2^64, lossy_from to I32F32 and cut to 28 fractional bits
RADIANS_PER_DEGREE == 4685082

\* the largest integer part of a Degree (I32F32)
I32_MAX == 2147483647

I32_MIN == (-I32_MAX) - 1

NORTH_POLE == [lat |-> 90, lon |-> 0]

SOUTH_POLE == [lat |-> -90, lon |-> 0]

DATELINE_LON == 180

(***************************************************************************)
(* Fixed-point arithmetic of type I, 28 fractional bits.                   *)
(***************************************************************************)
ONE == 2^28

LIMB == 2^14

Abs(x) == IF x < 0 THEN -x ELSE x

\* The operators below hand their operands to functions on Int, so that each
\* operand is a value before it is used.

\* floor(a * b / 2^28) for 0 <= a, b < 2^30, without leaving 32 bits
MulQFn[a \in Int, b \in Int] ==
  LET ah == a \div LIMB
      al == a % LIMB
      bh == b \div LIMB
      bl == b % LIMB
  IN  ah * bh + ((ah * bl + al * bh + ((al * bl) \div LIMB)) \div LIMB)

MulQ(a, b) == MulQFn[a, b]

\* (a * b) mod 2^28 for 0 <= a, b < 2^30: the bits MulQ drops
MulQRemFn[a \in Int, b \in Int] ==
  LET ah == a \div LIMB
      al == a % LIMB
      bh == b \div LIMB
      bl == b % LIMB
  IN  ((((ah * bl + al * bh) % LIMB) * LIMB) + al * bl) % ONE

MulQRem(a, b) == MulQRemFn[a, b]

\* the product of two signed numbers of type I
MulFn[a \in Int, b \in Int] ==
  (IF (a < 0) = (b < 0) THEN 1 ELSE -1) * MulQ(Abs(a), Abs(b))

Mul(a, b) == MulFn[a, b]

\* pi, pi/2 and 2*pi with 28 fractional bits
PI == 843314857

FRAC_PI_2 == 421657428

TWO_PI == 1686629713

\* the divisors (2k)(2k+1) of the sine series, innermost last
SinDivisors == <<6, 20, 42, 72, 110, 156, 210>>

SinHorner[x2 \in Int, k \in Int] ==
  IF k > Len(SinDivisors) THEN ONE
  ELSE ONE - (MulQ(x2, SinHorner[x2, k + 1]) \div SinDivisors[k])

\* sin(x) for 0 <= x <= pi/2
SinSeriesFn[x \in Int] == MulQ(x, SinHorner[MulQ(x, x), 1])

SinSeries(x) == SinSeriesFn[x]

\* sin(x) for 0 <= x <= pi
SinPos(x) == SinSeries(IF x > FRAC_PI_2 THEN PI - x ELSE x)

\* fixed::transcendental::sin: the sine of an angle in radians, |x| < 2*pi
sinFn[x \in Int] ==
  LET r == ((x + PI) % TWO_PI) - PI
  IN  (IF r < 0 THEN -1 ELSE 1) * SinPos(Abs(r))

sin(x) == sinFn[x]

\* fixed::transcendental::cos
cos(x) == sin(FRAC_PI_2 - x)

\* fixed::transcendental::powi(x, 2), which cannot fail for |x| <= 1
powi2Fn[x \in Int] == MulQ(Abs(x), Abs(x))

powi2(x) == powi2Fn[x]

\* q + rem / 2^28 <= aa
AtMost(q, rem, aa) == q < aa \/ (q = aa /\ rem = 0)

SqrtBits[aa \in Int, r \in Int, b \in Int] ==
  IF b < 0 THEN r
  ELSE LET c == r + 2^b
       IN  SqrtBits[aa, IF AtMost(MulQ(c, c), MulQRem(c, c), aa) THEN c ELSE r, b - 1]

\* fixed::transcendental::sqrt: Err for a negative operand
sqrt_is_err(aa) == aa < 0

\* fixed::transcendental::sqrt: the largest r with r * r <= aa, 0 <= aa < 4
sqrt(aa) == SqrtBits[aa, 0, 28]

AsinBits[s \in Int, t \in Int, b \in Int] ==
  IF b < 0 THEN t
  ELSE LET c == t + 2^b
       IN  AsinBits[s, IF c <= ONE /\ SinSeries(c) <= s THEN c ELSE t, b - 1]

\* fixed::transcendental::asin for 0 <= s: the largest angle t <= 1 with
\* sin(t) <= s.  The result saturates at 1: tests.rs pins the distance of
\* antipodal points (half equator, pole to pole) to 12742.0 km = 2 * R * 1.0
\* and their solar trip time to 110318 s.
asin(s) == AsinBits[s, 0, 28]

(***************************************************************************)
(* The geodesic helpers of impl Module.                                    *)
(***************************************************************************)
\* Degree::checked_sub(a, b) is None
SubOverflows(a, b) == IF b >= 0 THEN a < I32_MIN + b ELSE a > I32_MAX + b

\* Degree::checked_mul(x, Degree::from_num(k)) is None, k > 0
MulOverflows(x, k) == x > I32_MAX \div k \/ x < -(I32_MAX \div k)

\* aa of haversine_distance: the haversine of the central angle
HaversineAa(a, b) ==
  LET theta1 == a.lat * RADIANS_PER_DEGREE
      theta2 == b.lat * RADIANS_PER_DEGREE
      delta_theta == theta1 - theta2
      delta_lambda == (a.lon - b.lon) * RADIANS_PER_DEGREE
      tmp0 == sin(delta_theta \div 2)
      tmp1 == powi2(tmp0)
      tmp2 == Mul(cos(theta1), cos(theta2))
      tmp3 == sin(delta_lambda \div 2)
      tmp4 == powi2(tmp3)
  IN  tmp1 + Mul(tmp2, tmp4)

\* haversine_distance(a, b) in metres, for |a.lon - b.lon| <= 360 and sqrt Ok
haversine_distance(a, b) ==
  LET c == 2 * asin(sqrt(HaversineAa(a, b)))
  IN  MulQ(MEAN_EARTH_RADIUS, c)

\* solar_trip_time panics.  Where from.lon - to.lon overflows, line 223 panics
\* in a build with overflow checks, and in a build without them the difference
\* wraps there and checked_sub of the same operands is None at line 190: both
\* builds panic.  Where the product with 240 overflows, haversine_distance
\* returns a distance that the unwrap of line 195 then drops.  Last, sqrt is
\* Err for a negative aa and is unwrapped at line 238.
SolarTripTimePanics(from, to) ==
  \/ SubOverflows(from.lon, to.lon)
  \/ MulOverflows(from.lon - to.lon, 240)
  \/ sqrt_is_err(HaversineAa(from, to))

\* line 198 with dt in place of its absolute value: a variant of solar_trip_time
solar_trip_time_signed(from, to) ==
  LET d == haversine_distance(from, to)
      dt == (from.lon - to.lon) * 240
      tflight == d \div MAX_SPEED_MPS
  IN  tflight - dt

\* line 198 with the time shift added: a variant of solar_trip_time
solar_trip_time_added(from, to) ==
  LET d == haversine_distance(from, to)
      dt == (from.lon - to.lon) * 240
      tflight == d \div MAX_SPEED_MPS
  IN  tflight + Abs(dt)

\* solar_trip_time(from, to) in seconds, where it does not panic
solar_trip_time(from, to) ==
  LET d == haversine_distance(from, to)
      dt == (from.lon - to.lon) * 240
      tflight == d \div MAX_SPEED_MPS
  IN  tflight - Abs(dt)

is_valid_geolocation(loc) ==
  IF loc.lat > NORTH_POLE.lat THEN FALSE
  ELSE IF loc.lat < SOUTH_POLE.lat THEN FALSE
  ELSE IF loc.lon > DATELINE_LON THEN FALSE
  ELSE IF loc.lon < -DATELINE_LON THEN FALSE
  ELSE TRUE

(***************************************************************************)
(* Inputs.  The Locations a caller proposes: three admissible ones, two of *)
(* them (lat 80, one degree of longitude apart) closer than the minimum    *)
(* solar trip time; one near each pole; one on each side of the dateline;  *)
(* one with a latitude out of range; one with the least Degree as its      *)
(* longitude.                                                              *)
(***************************************************************************)
Loc(lat, lon) == [lat |-> lat, lon |-> lon]

Grid ==
  { Loc(0, 0), Loc(80, 0), Loc(80, 1), Loc(89, 0), Loc(-89, 0),
    Loc(0, 179), Loc(0, -179), Loc(95, 0), Loc(0, I32_MIN) }

MaxLocs == 2

MaxCurrencies == 2

ALICE == 1

BOB == 2

Proposals == UNION { [1..n -> Grid] : n \in 0..MaxLocs }

BootstrapperLists == { <<>>, <<ALICE>> }

Signed(who) == <<"Signed", who>>

Origins == { <<"None">>, Signed(ALICE), Signed(BOB) }

(***************************************************************************)
(* The distances and trip times of the proposed Locations, computed once.  *)
(***************************************************************************)
dateline_proxy(l1) == Loc(l1.lat, DATELINE_LON)

Points == Grid \cup {NORTH_POLE, SOUTH_POLE} \cup { dateline_proxy(l) : l \in Grid }

InRange(a, b) ==
  /\ ~SubOverflows(a.lon, b.lon)
  /\ ~MulOverflows(a.lon - b.lon, 240)

DistanceTable ==
  [ a \in Points, b \in Points |->
      IF InRange(a, b) THEN haversine_distance(a, b) ELSE 0 ] @@ <<>>

TripTimeTable ==
  [ a \in Points, b \in Points |->
      IF InRange(a, b) THEN solar_trip_time(a, b) ELSE 0 ] @@ <<>>

PanicTable ==
  [ a \in Points, b \in Points |-> SolarTripTimePanics(a, b) ] @@ <<>>

(***************************************************************************)
(* Storage (decl_storage), the events deposited, and the call dispatched   *)
(* last with its outcome and the storage it started from.                  *)
(***************************************************************************)
VARIABLES CurrencyIdentifiers, Locations, Bootstrappers, CurrencyProperties,
          events, call, result, pre

storage == <<CurrencyIdentifiers, Locations, Bootstrappers, CurrencyProperties>>

vars == <<CurrencyIdentifiers, Locations, Bootstrappers, CurrencyProperties,
          events, call, result, pre>>

Snapshot ==
  [ cids |-> CurrencyIdentifiers, locations |-> Locations,
    bootstrappers |-> Bootstrappers, properties |-> CurrencyProperties,
    events |-> events ]

NoCall == [origin |-> <<"None">>, loc |-> <<>>, bootstrappers |-> <<>>]

Range(f) == { f[i] : i \in DOMAIN f }

RECURSIVE EncodeLocations(_, _)
EncodeLocations(loc, i) ==
  IF i > Len(loc) THEN <<>>
  ELSE <<loc[i].lat, loc[i].lon>> \o EncodeLocations(loc, i + 1)

\* (loc, bootstrappers).encode(): each Vec is its length, then its items
Encode(loc, bootstrappers) ==
  <<Len(loc)>> \o EncodeLocations(loc, 1) \o <<Len(bootstrappers)>> \o bootstrappers

\* blake2_256, taken to be free of collisions: the digest stands for its input
blake2_256(bytes) == bytes

CurrencyIdentifierOf(loc, bootstrappers) == blake2_256(Encode(loc, bootstrappers))

DummyProperties ==
  [ name_utf8 |-> "encointer dummy",
    demurrage_per_block |-> "0x0000000000000000000001E3F0A8A973" ]

(***************************************************************************)
(* new_currency, as the code runs it.                                      *)
(***************************************************************************)
\* a comparison with the identifier registered last only: a variant of contains
containsLast(cids, cid) == cids # <<>> /\ cids[Len(cids)] = cid

\* cids.contains(&cid)
contains(cids, cid) == \E i \in 1..Len(cids) : cids[i] = cid

\* ensure! and ?: the first failure ends the call, nothing after it runs
Try(r, rest) == IF r # "Ok" THEN r ELSE rest

\* lines 117-118 for one l2
IntraSetCheck(l1, l2) ==
  IF l2 = l1 THEN "Ok"
  ELSE IF PanicTable[l1, l2] THEN "panic"
  ELSE IF ~(TripTimeTable[l1, l2] >= MIN_SOLAR_TRIP_TIME_S)
       THEN "minimum solar trip time violated within supplied locations"
  ELSE "Ok"

\* the inner loop over loc, lines 116-119, from its j-th item
RECURSIVE IntraSetScan(_, _, _)
IntraSetScan(l1, loc, j) ==
  IF j > Len(loc) THEN "Ok"
  ELSE Try(IntraSetCheck(l1, loc[j]), IntraSetScan(l1, loc, j + 1))

\* lines 121-122 without the South Pole: a variant of NearPole
NearNorthPole(l1) == DistanceTable[l1, NORTH_POLE] < DATELINE_DISTANCE_M

\* lines 121-122
NearPole(l1) ==
  \E pole \in {NORTH_POLE, SOUTH_POLE} : DistanceTable[l1, pole] < DATELINE_DISTANCE_M

\* lines 128-129 for the eastern hemisphere only: a variant of NearDateline
NearDatelineFromEast(l1) ==
  l1.lon > 0 /\ DistanceTable[l1, dateline_proxy(l1)] < DATELINE_DISTANCE_M

\* lines 128-129
NearDateline(l1) ==
  DistanceTable[l1, dateline_proxy(l1)] < DATELINE_DISTANCE_M

\* lines 137-141 with the skip of line 117 copied in: a variant of OtherCheck
OtherCheckSkippingEqual(l1, l2) ==
  IF l2 = l1 THEN "Ok"
  ELSE IF PanicTable[l1, l2] THEN "panic"
  ELSE IF TripTimeTable[l1, l2] < MIN_SOLAR_TRIP_TIME_S
       THEN "MinimumDistanceViolationToOtherCurrency"
  ELSE "Ok"

\* lines 137-141 for one l2
OtherCheck(l1, l2) ==
  IF PanicTable[l1, l2] THEN "panic"
  ELSE IF TripTimeTable[l1, l2] < MIN_SOLAR_TRIP_TIME_S
       THEN "MinimumDistanceViolationToOtherCurrency"
  ELSE "Ok"

\* the loop over Self::locations(other), lines 136-142, from its j-th item
RECURSIVE OtherScan(_, _, _)
OtherScan(l1, others, j) ==
  IF j > Len(others) THEN "Ok"
  ELSE Try(OtherCheck(l1, others[j]), OtherScan(l1, others, j + 1))

\* the loop over cids, lines 135-143, from its i-th item
RECURSIVE GlobalScan(_, _, _)
GlobalScan(l1, cids, i) ==
  IF i > Len(cids) THEN "Ok"
  ELSE Try(OtherScan(l1, Locations[cids[i]], 1), GlobalScan(l1, cids, i + 1))

\* one pass of the loop over l1, lines 114-143
CheckLocation(l1, loc, cids) ==
  IF ~is_valid_geolocation(l1) THEN "invalid geolocation specified"
  ELSE Try(IntraSetScan(l1, loc, 1),
           IF NearPole(l1) THEN "MinimumDistanceViolationToPole"
           ELSE IF NearDateline(l1) THEN "MinimumDistanceViolationToDateLine"
           ELSE GlobalScan(l1, cids, 1))

\* the loop over l1, lines 113-144, from its i-th item
RECURSIVE LocationLoop(_, _, _)
LocationLoop(loc, i, cids) ==
  IF i > Len(loc) THEN "Ok"
  ELSE Try(CheckLocation(loc[i], loc, cids), LocationLoop(loc, i + 1, cids))

\* how the call ends: Ok, the Err it returns, or a panic
Outcome(origin, loc, bootstrappers) ==
  IF origin[1] # "Signed" THEN "BadOrigin"
  ELSE IF contains(CurrencyIdentifiers, CurrencyIdentifierOf(loc, bootstrappers))
       THEN "currency already registered"
  ELSE LocationLoop(loc, 1, CurrencyIdentifiers)

\* the writes of lines 146-155 moved before the scan of the other currencies:
\* a variant of Commits
CommitsBeforeGlobalScan(r) == r \in {"Ok", "MinimumDistanceViolationToOtherCurrency"}

\* control reaches line 146
Commits(r) == r = "Ok"

Init ==
  /\ CurrencyIdentifiers = <<>>
  /\ Locations = <<>>
  /\ Bootstrappers = <<>>
  /\ CurrencyProperties = <<>>
  /\ events = <<>>
  /\ call = NoCall
  /\ result = "idle"
  /\ pre = [ cids |-> <<>>, locations |-> <<>>, bootstrappers |-> <<>>,
             properties |-> <<>>, events |-> <<>> ]

\* lines 146-155 without the event: a variant of Register
RegisterSilently(sender, cid, loc, bootstrappers) ==
  /\ CurrencyIdentifiers' = Append(CurrencyIdentifiers, cid)
  /\ Locations' = (cid :> loc) @@ Locations
  /\ Bootstrappers' = (cid :> bootstrappers) @@ Bootstrappers
  /\ CurrencyProperties' = (cid :> DummyProperties) @@ CurrencyProperties
  /\ UNCHANGED events

\* lines 146-155: the four storage writes and the event
Register(sender, cid, loc, bootstrappers) ==
  /\ CurrencyIdentifiers' = Append(CurrencyIdentifiers, cid)
  /\ Locations' = (cid :> loc) @@ Locations
  /\ Bootstrappers' = (cid :> bootstrappers) @@ Bootstrappers
  /\ CurrencyProperties' = (cid :> DummyProperties) @@ CurrencyProperties
  /\ events' = Append(events, <<"CurrencyRegistered", sender, cid>>)

\* The dispatch of one extrinsic, lines 107-159.  The registry of the model
\* holds MaxCurrencies currencies: a call that would register one more is
\* left out, a call that fails is dispatched whatever the registry holds.
new_currency(origin, loc, bootstrappers) ==
  /\ result = "idle"
  /\ call' = [origin |-> origin, loc |-> loc, bootstrappers |-> bootstrappers]
  /\ result' = Outcome(origin, loc, bootstrappers)
  /\ pre' = Snapshot
  /\ IF Commits(result')
     THEN /\ Len(CurrencyIdentifiers) < MaxCurrencies
          /\ Register(origin[2], CurrencyIdentifierOf(loc, bootstrappers), loc, bootstrappers)
     ELSE UNCHANGED <<storage, events>>

\* the dispatch is over; the next extrinsic may be dispatched
Return ==
  /\ result # "idle"
  /\ call' = NoCall
  /\ result' = "idle"
  /\ pre' = Snapshot
  /\ UNCHANGED <<storage, events>>

Next ==
  \/ \E origin \in Origins, loc \in Proposals, bootstrappers \in BootstrapperLists :
       new_currency(origin, loc, bootstrappers)
  \/ Return

Spec == Init /\ [][Next]_vars

(***************************************************************************)
(* The properties checked.  A state with result # "idle" is the state in   *)
(* which a call has just ended: call is the call, pre the registry and the *)
(* events it started from, result how it ended.                            *)
(***************************************************************************)
Rejections ==
  { "BadOrigin", "currency already registered", "invalid geolocation specified",
    "minimum solar trip time violated within supplied locations",
    "MinimumDistanceViolationToPole", "MinimumDistanceViolationToDateLine",
    "MinimumDistanceViolationToOtherCurrency" }

CalledSigned == result # "idle" /\ call.origin[1] = "Signed"

CalledCid == CurrencyIdentifierOf(call.loc, call.bootstrappers)

Registered == Range(CurrencyIdentifiers)

\* C1: whenever new_currency returns an error, whatever the reason,
\* CurrencyIdentifiers, Locations, Bootstrappers and CurrencyProperties are
\* what they were before the call and no event has been deposited.
C1_RejectionLeavesRegistry ==
  result \in Rejections =>
    /\ CurrencyIdentifiers = pre.cids
    /\ Locations = pre.locations
    /\ Bootstrappers = pre.bootstrappers
    /\ CurrencyProperties = pre.properties
    /\ events = pre.events

\* a call rejected by the scan of the other currencies, one currency registered
C1_Witness ==
  /\ result = "MinimumDistanceViolationToOtherCurrency"
  /\ Len(CurrencyIdentifiers) = 1
  /\ Len(events) = 1

\* C2: in every reachable registry, two Locations of two different registered
\* sets have a solar trip time of at least MIN_SOLAR_TRIP_TIME_S, in either
\* order; and no accepted proposal holds a Location whose solar trip time to
\* a Location registered before the call is below the minimum.
C2_GlobalSeparation ==
  /\ \A i, j \in 1..Len(CurrencyIdentifiers) : i # j =>
       \A l1 \in Range(Locations[CurrencyIdentifiers[i]]),
          l2 \in Range(Locations[CurrencyIdentifiers[j]]) :
            /\ ~PanicTable[l1, l2]
            /\ TripTimeTable[l1, l2] >= MIN_SOLAR_TRIP_TIME_S
  /\ result = "Ok" =>
       \A l1 \in Range(call.loc), c \in Range(pre.cids) :
          \A l2 \in Range(pre.locations[c]) :
            /\ ~PanicTable[l1, l2]
            /\ TripTimeTable[l1, l2] >= MIN_SOLAR_TRIP_TIME_S

\* a second currency accepted beside a first, both with Locations
C2_Witness ==
  /\ result = "Ok"
  /\ Len(CurrencyIdentifiers) = 2
  /\ \A c \in Registered : Locations[c] # <<>>

\* C3: every registered set has a solar trip time of at least
\* MIN_SOLAR_TRIP_TIME_S between any two of its entries, two entries with the
\* same coordinates included: a proposal with two such entries is rejected.
C3_IntraSetSeparation ==
  \A c \in Registered :
    \A i, j \in 1..Len(Locations[c]) : i # j =>
      (LET l1 == Locations[c][i]
           l2 == Locations[c][j]
       IN  ~PanicTable[l1, l2] /\ TripTimeTable[l1, l2] >= MIN_SOLAR_TRIP_TIME_S)

\* C4: a call from a signed sender with a (locations, bootstrappers) pair
\* accepted before it ends with "currency already registered", whoever sends
\* it and whatever was registered in between; CurrencyIdentifiers never holds
\* an identifier twice.
C4_DuplicateRejected ==
  /\ (CalledSigned /\ CalledCid \in Range(pre.cids)) =>
       result = "currency already registered"
  /\ \A i, j \in 1..Len(CurrencyIdentifiers) :
       i # j => CurrencyIdentifiers[i] # CurrencyIdentifiers[j]

\* the first of two currencies proposed again, by another sender than its own
C4_Witness ==
  /\ result = "currency already registered"
  /\ Len(CurrencyIdentifiers) = 2
  /\ CalledCid = CurrencyIdentifiers[1]
  /\ call.origin[2] # events[1][2]

\* C5: when new_currency(sender, loc, bootstrappers) succeeds, the digest cid
\* of the encoded (loc, bootstrappers) is in CurrencyIdentifiers, Locations[cid]
\* is loc in its order, Bootstrappers[cid] is bootstrappers, and exactly one
\* event, CurrencyRegistered(sender, cid), has been deposited.
C5_AcceptedIsRecorded ==
  result = "Ok" =>
    /\ CalledCid \in Registered
    /\ CalledCid \in DOMAIN Locations /\ Locations[CalledCid] = call.loc
    /\ CalledCid \in DOMAIN Bootstrappers /\ Bootstrappers[CalledCid] = call.bootstrappers
    /\ events = Append(pre.events, <<"CurrencyRegistered", call.origin[2], CalledCid>>)

\* two different Locations and a bootstrapper accepted as a second currency
C5_Witness ==
  /\ result = "Ok"
  /\ Len(call.loc) = 2 /\ call.loc[1] # call.loc[2]
  /\ call.bootstrappers = <<ALICE>>
  /\ call.origin = Signed(BOB)
  /\ Len(pre.events) = 1

\* the Locations whose distance to a pole or to their dateline probe the
\* code computes without a wrapped longitude difference
Measurable(l) == ~MulOverflows(l.lon, 240) /\ ~MulOverflows(l.lon - DATELINE_LON, 240)

PoleDistance(l) ==
  IF DistanceTable[l, NORTH_POLE] < DistanceTable[l, SOUTH_POLE]
  THEN DistanceTable[l, NORTH_POLE] ELSE DistanceTable[l, SOUTH_POLE]

DatelineDistance(l) == DistanceTable[l, dateline_proxy(l)]

\* a call from a signed sender with the one Location l, not registered before
ProposedAlone(l) ==
  /\ CalledSigned
  /\ call.loc = <<l>>
  /\ CalledCid \notin Range(pre.cids)

\* C6: no proposal with a Location closer than DATELINE_DISTANCE_M to the
\* North or the South Pole is accepted; where no earlier check fails the
\* reason is MinimumDistanceViolationToPole; every registered Location is at
\* least DATELINE_DISTANCE_M from both poles.
C6_PoleExclusion ==
  /\ \A l \in Range(call.loc) :
       (CalledSigned /\ Measurable(l) /\ PoleDistance(l) < DATELINE_DISTANCE_M) =>
         result # "Ok"
  /\ \A l \in Grid :
       (ProposedAlone(l) /\ is_valid_geolocation(l) /\ PoleDistance(l) < DATELINE_DISTANCE_M) =>
         result = "MinimumDistanceViolationToPole"
  /\ \A c \in Registered : \A l \in Range(Locations[c]) :
       /\ DistanceTable[l, NORTH_POLE] >= DATELINE_DISTANCE_M
       /\ DistanceTable[l, SOUTH_POLE] >= DATELINE_DISTANCE_M

\* a Location near the South Pole, after an admissible one, rejected for it
C6_Witness ==
  /\ result = "MinimumDistanceViolationToPole"
  /\ Len(call.loc) = 2
  /\ call.loc[2].lat < 0
  /\ DistanceTable[call.loc[2], SOUTH_POLE] < DATELINE_DISTANCE_M
  /\ PoleDistance(call.loc[1]) >= DATELINE_DISTANCE_M

\* C7: no proposal with a Location closer than DATELINE_DISTANCE_M to the
\* probe point of its own latitude at longitude +180 is accepted, for
\* longitudes just below +180 and just above -180 alike; where no earlier
\* check fails the reason is MinimumDistanceViolationToDateLine; no
\* registered Location is within DATELINE_DISTANCE_M of the dateline.
C7_DatelineExclusion ==
  /\ \A l \in Range(call.loc) :
       (CalledSigned /\ Measurable(l) /\ DatelineDistance(l) < DATELINE_DISTANCE_M) =>
         result # "Ok"
  /\ \A l \in Grid :
       ( /\ ProposedAlone(l)
         /\ is_valid_geolocation(l)
         /\ PoleDistance(l) >= DATELINE_DISTANCE_M
         /\ DatelineDistance(l) < DATELINE_DISTANCE_M ) =>
         result = "MinimumDistanceViolationToDateLine"
  /\ \A c \in Registered : \A l \in Range(Locations[c]) :
       DatelineDistance(l) >= DATELINE_DISTANCE_M

\* a Location just east of -180 degrees rejected for the dateline
C7_Witness ==
  /\ result = "MinimumDistanceViolationToDateLine"
  /\ call.loc # <<>>
  /\ call.loc[1].lon < 0
  /\ DatelineDistance(call.loc[1]) < DATELINE_DISTANCE_M

\* the reason of the earliest failing step when the steps run one after the
\* other, each over the whole proposal
StagedReason(loc, bootstrappers, cids, locations) ==
  IF CurrencyIdentifierOf(loc, bootstrappers) \in Range(cids)
    THEN "currency already registered"
  ELSE IF \E l \in Range(loc) : ~is_valid_geolocation(l)
    THEN "invalid geolocation specified"
  ELSE IF \E i, j \in 1..Len(loc) :
            i # j /\ TripTimeTable[loc[i], loc[j]] < MIN_SOLAR_TRIP_TIME_S
    THEN "minimum solar trip time violated within supplied locations"
  ELSE IF \E l \in Range(loc) : PoleDistance(l) < DATELINE_DISTANCE_M
    THEN "MinimumDistanceViolationToPole"
  ELSE IF \E l \in Range(loc) : DatelineDistance(l) < DATELINE_DISTANCE_M
    THEN "MinimumDistanceViolationToDateLine"
  ELSE IF \E l1 \in Range(loc), c \in Range(cids) :
            \E l2 \in Range(locations[c]) :
              TripTimeTable[l1, l2] < MIN_SOLAR_TRIP_TIME_S
    THEN "MinimumDistanceViolationToOtherCurrency"
  ELSE "Ok"

\* C8: the reason new_currency reports is that of the earliest failing step
\* in the order uniqueness, validity of all Locations, separation of all
\* pairs, pole exclusion of all Locations, dateline exclusion of all
\* Locations, global separation, wherever in the proposal the offending
\* Locations stand.  Stated for the calls that end with Ok or a reason and
\* whose Locations are pairwise different.
C8_ReasonOfEarliestStep ==
  ( /\ CalledSigned
    /\ result # "panic"
    /\ \A i, j \in 1..Len(call.loc) : i # j => call.loc[i] # call.loc[j] ) =>
    result = StagedReason(call.loc, call.bootstrappers, pre.cids, pre.locations)

\* C9: a call from a signed origin ends with Ok or a rejection, whatever the
\* Locations and the registry: no unwrap in solar_trip_time or
\* haversine_distance panics and no fixed-point operation overflows.
C9_NeverFaults == CalledSigned => result \in Rejections \cup {"Ok"}

\* C10: every registered location set is a non-empty sequence: new_currency
\* accepts no proposal with an empty location list.
C10_SetsNonEmpty ==
  /\ \A c \in Registered : Locations[c] # <<>>
  /\ (result = "Ok") => call.loc # <<>>

(***************************************************************************)
(* The calls new_currency makes to is_valid_geolocation, solar_trip_time   *)
(* and haversine_distance, in the order it makes them, up to the check     *)
(* that ends the call.                                                     *)
(***************************************************************************)
Evaluated(fn, args) == [fn |-> fn, args |-> args]

\* the inner loop over loc, lines 116-119, from its j-th item
RECURSIVE IntraSetCalls(_, _, _)
IntraSetCalls(l1, loc, j) ==
  IF j > Len(loc) THEN <<>>
  ELSE IF loc[j] = l1 THEN IntraSetCalls(l1, loc, j + 1)
  ELSE <<Evaluated("solar_trip_time", <<l1, loc[j]>>)>>
       \o (IF IntraSetCheck(l1, loc[j]) # "Ok" THEN <<>>
           ELSE IntraSetCalls(l1, loc, j + 1))

\* lines 121-122: || evaluates its right operand only where the left is false
PoleCalls(l1) ==
  <<Evaluated("haversine_distance", <<l1, NORTH_POLE>>)>>
  \o (IF DistanceTable[l1, NORTH_POLE] < DATELINE_DISTANCE_M THEN <<>>
      ELSE <<Evaluated("haversine_distance", <<l1, SOUTH_POLE>>)>>)

\* line 129
DatelineCalls(l1) ==
  <<Evaluated("haversine_distance", <<l1, dateline_proxy(l1)>>)>>

\* the loop over Self::locations(other), lines 136-142, from its j-th item
RECURSIVE OtherCalls(_, _, _)
OtherCalls(l1, others, j) ==
  IF j > Len(others) THEN <<>>
  ELSE <<Evaluated("solar_trip_time", <<l1, others[j]>>)>>
       \o (IF OtherCheck(l1, others[j]) # "Ok" THEN <<>>
           ELSE OtherCalls(l1, others, j + 1))

\* the loop over cids, lines 135-143, from its i-th item
RECURSIVE GlobalCalls(_, _, _, _)
GlobalCalls(l1, cids, locations, i) ==
  IF i > Len(cids) THEN <<>>
  ELSE OtherCalls(l1, locations[cids[i]], 1)
       \o (IF OtherScan(l1, locations[cids[i]], 1) # "Ok" THEN <<>>
           ELSE GlobalCalls(l1, cids, locations, i + 1))

\* one pass of the loop over l1, lines 114-143
CheckLocationCalls(l1, loc, cids, locations) ==
  <<Evaluated("is_valid_geolocation", <<l1>>)>>
  \o (IF ~is_valid_geolocation(l1) THEN <<>>
      ELSE IntraSetCalls(l1, loc, 1)
           \o (IF IntraSetScan(l1, loc, 1) # "Ok" THEN <<>>
               ELSE PoleCalls(l1)
                    \o (IF NearPole(l1) THEN <<>>
                        ELSE DatelineCalls(l1)
                             \o (IF NearDateline(l1) THEN <<>>
                                 ELSE GlobalCalls(l1, cids, locations, 1)))))

\* the loop over l1, lines 113-144, from its i-th item
RECURSIVE LocationLoopCalls(_, _, _, _)
LocationLoopCalls(loc, i, cids, locations) ==
  IF i > Len(loc) THEN <<>>
  ELSE CheckLocationCalls(loc[i], loc, cids, locations)
       \o (IF CheckLocation(loc[i], loc, cids) # "Ok" THEN <<>>
           ELSE LocationLoopCalls(loc, i + 1, cids, locations))

\* the calls of the call that has just ended
CallsMade ==
  IF ~CalledSigned \/ CalledCid \in Range(pre.cids) THEN <<>>
  ELSE LocationLoopCalls(call.loc, 1, pre.cids, pre.locations)

\* C11: within one call, a Location of the proposal is an argument of
\* solar_trip_time or haversine_distance only after is_valid_geolocation has
\* been evaluated on it (the call goes on only where it returned true); no
\* Location of the proposal is the second argument of the intra-set
\* solar_trip_time before its own validity check.
C11_ValidatedBeforeMeasured ==
  \A k \in DOMAIN CallsMade :
    CallsMade[k].fn # "is_valid_geolocation" =>
      \A l \in Range(CallsMade[k].args) \cap Range(call.loc) :
        \E h \in 1..(k - 1) :
          CallsMade[h] = Evaluated("is_valid_geolocation", <<l>>)

(***************************************************************************)
(* solar_trip_time on its own.  call.loc holds a pair of valid Locations,  *)
(* events the evaluations made of it with the values they returned.        *)
(***************************************************************************)
TripLats == {-90, -45, 0, 45, 90}

TripLons == {-180, -179, -1, 0, 1, 115, 179, 180}

TripGrid == { Loc(lat, lon) : lat \in TripLats, lon \in TripLons }

Returned(fn, args, value) == [fn |-> fn, args |-> args, value |-> value]

TripInit ==
  /\ CurrencyIdentifiers = <<>>
  /\ Locations = <<>>
  /\ Bootstrappers = <<>>
  /\ CurrencyProperties = <<>>
  /\ events = <<>>
  /\ \E from \in TripGrid, to \in TripGrid :
       call = [origin |-> <<"None">>, loc |-> <<from, to>>, bootstrappers |-> <<>>]
  /\ result = "idle"
  /\ pre = [ cids |-> <<>>, locations |-> <<>>, bootstrappers |-> <<>>,
             properties |-> <<>>, events |-> <<>> ]

\* solar_trip_time(from, to), then solar_trip_time(to, from)
MeasureTrip ==
  /\ result = "idle"
  /\ \A l \in Range(call.loc) : is_valid_geolocation(l)
  /\ events' = << Returned("solar_trip_time", call.loc,
                           solar_trip_time(call.loc[1], call.loc[2])),
                  Returned("solar_trip_time", <<call.loc[2], call.loc[1]>>,
                           solar_trip_time(call.loc[2], call.loc[1])) >>
  /\ result' = "measured"
  /\ UNCHANGED <<storage, call, pre>>

TripNext == MeasureTrip

TripSpec == TripInit /\ [][TripNext]_vars

Measured == result = "measured"

EquatorHalfTurn == solar_trip_time(Loc(0, 0), Loc(0, DATELINE_LON))

====
